---- MODULE Spec2Model ----
(***************************************************************************)
(* Model of the Elering price exporter:                                    *)
(*   scripts/elering_price_exporter.py  (main, fetch_electricity_prices,   *)
(*       convert_to_dataframe, save_to_file)                               *)
(*   scripts/utils/influxdb.py          (get_influxdb_args,                *)
(*       write_dataframe_to_influxdb)                                      *)
(*                                                                         *)
(* Strings whose characters matter (region keys, file names) are sequences *)
(* of one-character strings, so that str.upper, str.lower and              *)
(* os.path.splitext are computed character by character.                   *)
(***************************************************************************)
EXTENDS Integers, Sequences, FiniteSets

VARIABLES
    pc,                   \* position of main(): fetch, normalize, check, save, influx, write, done, crashed
    args_output_filename, \* args.output_filename (<<>> stands for None)
    data,                 \* the parsed JSON response: [success, data], data an insertion-ordered dict
    fetched,              \* history: the response as fetch_electricity_prices returned it
    df,                   \* the long-format DataFrame: a sequence of rows [time, area, value]
    idx,                  \* position in args.output_filename of the for loop of main
    written,              \* the file names written so far, in order
    save_df,              \* the rows handed to the last save_to_file call
    db_df,                \* the rows handed to write_dataframe_to_influxdb
    influx_args,          \* args_dict of get_influxdb_args: which parameters are present
    db_exc,               \* the exception raised inside the try block of the writer
    db_result,            \* what write_dataframe_to_influxdb did: none, True, False, raised
    write_failed,         \* position of the output path whose write raised (0: none)
    error,                \* the exception that left main()
    exit_status,          \* running, 0 (normal end) or 1 (uncaught exception)
    log,                  \* the messages logged, in order
    trace                 \* the stages entered, in order

vars == <<pc, args_output_filename, data, fetched, df, idx, written, save_df, db_df,
          influx_args, db_exc, db_result, write_failed, error, exit_status, log, trace>>

----------------------------------------------------------------------------
(* Bounds *)

MaxRegions == 2
MaxPoints == 2
MaxFiles == 2

----------------------------------------------------------------------------
(* Characters and strings *)

UpperChar(c) ==
    CASE c = "a" -> "A" [] c = "c" -> "C" [] c = "d" -> "D" [] c = "e" -> "E"
      [] c = "f" -> "F" [] c = "i" -> "I" [] c = "l" -> "L" [] c = "p" -> "P"
      [] c = "q" -> "Q" [] c = "r" -> "R" [] c = "s" -> "S" [] c = "t" -> "T"
      [] c = "u" -> "U" [] c = "v" -> "V" [] c = "x" -> "X"
      [] OTHER -> c

LowerChar(c) ==
    CASE c = "A" -> "a" [] c = "C" -> "c" [] c = "D" -> "d" [] c = "E" -> "e"
      [] c = "F" -> "f" [] c = "I" -> "i" [] c = "L" -> "l" [] c = "P" -> "p"
      [] c = "Q" -> "q" [] c = "R" -> "r" [] c = "S" -> "s" [] c = "T" -> "t"
      [] c = "U" -> "u" [] c = "V" -> "v" [] c = "X" -> "x"
      [] OTHER -> c

\* str.upper()
upper(s) == [i \in 1..Len(s) |-> UpperChar(s[i])]

\* str.lower()
lower(s) == [i \in 1..Len(s) |-> LowerChar(s[i])]

\* str.rfind(ch): the last position of ch in s, 0 when absent
rfind(s, ch) ==
    IF \E i \in 1..Len(s) : s[i] = ch
    THEN CHOOSE i \in 1..Len(s) : s[i] = ch /\ \A j \in (i+1)..Len(s) : s[j] # ch
    ELSE 0

\* os.path.splitext(p)[1]: from the last dot of the last path component,
\* unless that component has only dots before it
splitext_ext(p) ==
    LET sepIndex == rfind(p, "/")
        dotIndex == rfind(p, ".")
    IN  IF dotIndex > sepIndex
           /\ \E k \in (sepIndex+1)..(dotIndex-1) : p[k] # "."
        THEN SubSeq(p, dotIndex, Len(p))
        ELSE <<>>

----------------------------------------------------------------------------
(* Inputs *)

SeqsUpTo(S, n) == UNION {[1..k -> S] : k \in 0..n}

\* sequences of distinct keys, at most n of them
KeySeqs(keys, n) ==
    {ks \in SeqsUpTo(keys, n) : \A i, j \in 1..Len(ks) : i # j => ks[i] # ks[j]}

\* insertion-ordered dicts {key: prices} with at most n keys
Dicts(keys, n, seqs) ==
    UNION {{[i \in 1..Len(ks) |-> [key |-> ks[i], prices |-> ps[i]]] :
                ps \in [1..Len(ks) -> seqs]} : ks \in KeySeqs(keys, n)}

Pt(t, p) == [timestamp |-> t, price |-> p]

Timestamps == {1, 2, 3}
Prices == {10, 20}
Points == {Pt(t, p) : t \in Timestamps, p \in Prices}

\* region keys as the API may spell them
RegionKeys == {<<"e","e">>, <<"E","E">>, <<"f","i">>}
\* region keys after the normalisation of main
UpperRegionKeys == {<<"E","E">>, <<"F","I">>}

\* per-region price lists of the fetched responses
RunPrices == {<<>>, <<Pt(1, 10)>>, <<Pt(1, 10), Pt(2, 20)>>}

Responses ==
    {[success |-> s, data |-> d] :
        s \in BOOLEAN, d \in Dicts(RegionKeys, MaxRegions, RunPrices)}

FileNames ==
    { <<"a",".","c","s","v">>,
      <<"a",".","X","l","s","x">>,
      <<"a",".","p","a","r","q","u","e","t">>,
      <<"a",".","t","x","t">>,
      <<".","c","s","v">>,
      <<"d",".","c","s","v","/","a">> }

\* nargs="+": a list of one or more names, or None (<<>>) when the flag is absent
FileLists == SeqsUpTo(FileNames, MaxFiles)

InfluxArgNames == <<"INFLUXDB_URL", "INFLUXDB_TOKEN", "INFLUXDB_ORG", "INFLUXDB_BUCKET">>

Exc(cls, status) == [cls |-> cls, status |-> status]
NoExc == Exc("none", 0)

\* what fetch_electricity_prices may raise
FetchErrors == {Exc("HTTPStatusError", 500), Exc("ConnectError", 0)}

\* what the client construction and write_api.write may raise
WriteErrors ==
    { Exc("ApiException", 401), Exc("ApiException", 500), Exc("ValueError", 0),
      Exc("TypeError", 0), Exc("RuntimeError", 0), Exc("ReadTimeoutError", 0) }

----------------------------------------------------------------------------
(* main, line 108: {k.upper(): v for k, v in data["data"].items()} *)

HasKey(d, k) == \E i \in 1..Len(d) : d[i].key = k

\* d[k] = v on an insertion-ordered dict: an existing key keeps its place
DictSet(d, k, v) ==
    IF HasKey(d, k)
    THEN [i \in 1..Len(d) |-> IF d[i].key = k THEN [key |-> k, prices |-> v] ELSE d[i]]
    ELSE Append(d, [key |-> k, prices |-> v])

RECURSIVE UpperKeysFrom(_, _, _)
UpperKeysFrom(d, i, acc) ==
    IF i > Len(d) THEN acc
    ELSE UpperKeysFrom(d, i + 1, DictSet(acc, upper(d[i].key), d[i].prices))

\* mutant: the keys are left as fetched
UpperKeys_AsFetched(d) == d

UpperKeys(d) == UpperKeysFrom(d, 1, <<>>)

----------------------------------------------------------------------------
(* convert_to_dataframe *)

NaN == [nan |-> TRUE, v |-> 0]
Val(p) == [nan |-> FALSE, v |-> p]

\* pd.to_datetime(index, unit="s", utc=True): epoch seconds to a UTC instant
to_datetime(t) == [epoch_s |-> t, tz |-> "UTC"]

\* the index of pd.DataFrame(prices).set_index("timestamp")["price"]
SeriesIndex(prices) == [i \in 1..Len(prices) |-> prices[i].timestamp]

HasDuplicates(ix) == \E i, j \in 1..Len(ix) : i # j /\ ix[i] = ix[j]

SortedSeq(S) ==
    CHOOSE s \in [1..Cardinality(S) -> S] :
        \A i, j \in 1..Cardinality(S) : i < j => s[i] < s[j]

\* pandas union_indexes over the per-region Series: identical indexes are taken
\* as they are (order and repeated labels kept), different ones are merged into
\* their sorted distinct labels
UnionIndex(d) ==
    IF Len(d) = 0 THEN <<>>
    ELSE IF \A i \in 1..Len(d) : SeriesIndex(d[i].prices) = SeriesIndex(d[1].prices)
    THEN SeriesIndex(d[1].prices)
    ELSE SortedSeq(UNION {{d[i].prices[k].timestamp : k \in 1..Len(d[i].prices)} :
                              i \in 1..Len(d)})

\* the cell of the wide table for column c at index position pos: a Series
\* whose index is the table's is taken as it is, any other is reindexed by label
Cell(d, ix, c, pos) ==
    LET prices == d[c].prices
    IN  IF SeriesIndex(prices) = ix THEN Val(prices[pos].price)
        ELSE IF \E k \in 1..Len(prices) : prices[k].timestamp = ix[pos]
        THEN Val(prices[CHOOSE k \in 1..Len(prices) : prices[k].timestamp = ix[pos]].price)
        ELSE NaN

\* the error convert_to_dataframe raises on d, if any:
\*   line 73: set_index("timestamp") on the frame of an empty list (no columns)
\*   line 75: reindexing a Series with repeated labels to a different index
ConvertError(d) ==
    IF \E i \in 1..Len(d) : d[i].prices = <<>> THEN Exc("KeyError", 0)
    ELSE IF /\ \E i \in 1..Len(d) : SeriesIndex(d[i].prices) # SeriesIndex(d[1].prices)
            /\ \E i \in 1..Len(d) : HasDuplicates(SeriesIndex(d[i].prices))
    THEN Exc("ValueError", 0)
    ELSE NoExc

\* reset_index().melt(id_vars=["time"], ...).set_index("time"): the wide table
\* read column by column
Melt(d) ==
    LET ix == UnionIndex(d)
        L  == Len(ix)
    IN  [k \in 1..(Len(d) * L) |->
            LET c   == ((k - 1) \div L) + 1
                pos == ((k - 1) % L) + 1
            IN  [time |-> to_datetime(ix[pos]), area |-> d[c].key, value |-> Cell(d, ix, c, pos)]]

\* mutant: an empty mapping is rejected like an empty price list
convert_to_dataframe_EmptyRaises(d) ==
    IF Len(d) = 0 \/ ConvertError(d) # NoExc
    THEN [err |-> Exc("KeyError", 0), rows |-> <<>>]
    ELSE [err |-> NoExc, rows |-> Melt(d)]

convert_to_dataframe(d) ==
    IF ConvertError(d) # NoExc
    THEN [err |-> ConvertError(d), rows |-> <<>>]
    ELSE [err |-> NoExc, rows |-> Melt(d)]

----------------------------------------------------------------------------
(* The run of main() *)

DotParquet == <<".","p","a","r","q","u","e","t">>
DotCsv     == <<".","c","s","v">>
DotXlsx    == <<".","x","l","s","x">>

\* an uncaught exception leaves main: the interpreter exits with status 1
Crash(e) ==
    /\ pc' = "crashed"
    /\ error' = e
    /\ exit_status' = 1

\* main returns: the interpreter exits with status 0
Return ==
    /\ pc' = "done"
    /\ exit_status' = 0
    /\ UNCHANGED error

\* mutant: the database write does not wait for the loop over the paths
AfterSave_SkipLoop(files, i) == "influx"

\* where main goes once position i of the output list is reached: the next
\* save_to_file call, or write_dataframe_to_influxdb after the loop
AfterSave(files, i) == IF i > Len(files) THEN "influx" ELSE "save"

\* the state after parse_args
Init ==
    /\ pc = "fetch"
    /\ args_output_filename \in FileLists
    /\ data = [success |-> FALSE, data |-> <<>>]
    /\ fetched = [success |-> FALSE, data |-> <<>>]
    /\ df = <<>>
    /\ idx = 0
    /\ written = <<>>
    /\ save_df = <<>>
    /\ db_df = <<>>
    /\ influx_args = <<>>
    /\ db_exc = NoExc
    /\ db_result = "none"
    /\ write_failed = 0
    /\ error = NoExc
    /\ exit_status = "running"
    /\ log = <<>>
    /\ trace = <<>>

\* data = fetch_electricity_prices(...): raise_for_status or the transport may
\* raise, which leaves main
Fetch ==
    /\ pc = "fetch"
    /\ trace' = Append(trace, "fetch")
    /\ \/ \E e \in FetchErrors : Crash(e) /\ UNCHANGED <<data, fetched>>
       \/ \E r \in Responses :
            /\ data' = r
            /\ fetched' = r
            /\ pc' = "normalize"
            /\ UNCHANGED <<error, exit_status>>
    /\ UNCHANGED <<args_output_filename, df, idx, written, save_df, db_df,
                   influx_args, db_exc, db_result, write_failed, log>>

\* data["data"] = {k.upper(): v for ...}
Normalize ==
    /\ pc = "normalize"
    /\ data' = [data EXCEPT !.data = UpperKeys(@)]
    /\ pc' = "check"
    /\ UNCHANGED <<args_output_filename, fetched, df, idx, written, save_df, db_df, influx_args,
                   db_exc, db_result, write_failed, error, exit_status, log, trace>>

\* mutant: the success flag is not consulted
IsSuccess_Always(d) == TRUE

\* if data["success"]:
IsSuccess(d) == d.success

\* df = convert_to_dataframe(data); an exception of the conversion leaves main
Convert ==
    /\ pc = "check"
    /\ IsSuccess(data)
    /\ trace' = Append(trace, "transform")
    /\ LET r == convert_to_dataframe(data.data)
       IN  \/ /\ r.err # NoExc
              /\ Crash(r.err)
              /\ UNCHANGED <<df, idx>>
           \/ /\ r.err = NoExc
              /\ df' = r.rows
              /\ idx' = 1
              /\ pc' = AfterSave(args_output_filename, 1)
              /\ UNCHANGED <<error, exit_status>>
    /\ UNCHANGED <<args_output_filename, data, fetched, written, save_df, db_df, influx_args,
                   db_exc, db_result, write_failed, log>>

\* else: logging.error("Failed to fetch data")
FetchFailed ==
    /\ pc = "check"
    /\ ~IsSuccess(data)
    /\ log' = Append(log, "error: Failed to fetch data")
    /\ Return
    /\ UNCHANGED <<args_output_filename, data, fetched, df, idx, written, save_df, db_df,
                   influx_args, db_exc, db_result, write_failed, trace>>

\* mutant: the extension is compared as written
save_ext_CaseSensitive(filename) == splitext_ext(filename)

\* ext = os.path.splitext(filename)[1].lower()
save_ext(filename) == lower(splitext_ext(filename))

\* df.reset_index().to_<fmt>(filename) completes
WriteOk(filename, fmt) ==
    /\ written' = Append(written, filename)
    /\ log' = Append(log, "info: Data saved")
    /\ idx' = idx + 1
    /\ pc' = AfterSave(args_output_filename, idx + 1)
    /\ UNCHANGED <<write_failed, error, exit_status>>

\* mutant: a failed write is skipped and the loop goes on
WriteFails_Swallowed(filename, fmt) ==
    /\ write_failed' = idx
    /\ idx' = idx + 1
    /\ pc' = AfterSave(args_output_filename, idx + 1)
    /\ UNCHANGED <<written, log, error, exit_status>>

\* df.reset_index().to_<fmt>(filename) raises: nothing catches it
WriteFails(filename, fmt) ==
    /\ write_failed' = idx
    /\ Crash(Exc("OSError", 0))
    /\ UNCHANGED <<written, log, idx>>

WriteFile(filename, fmt) == WriteOk(filename, fmt) \/ WriteFails(filename, fmt)

save_to_file(filename) ==
    LET ext == save_ext(filename)
    IN  \/ ext = DotParquet /\ WriteFile(filename, "parquet")
        \/ ext = DotCsv /\ WriteFile(filename, "csv")
        \/ ext = DotXlsx /\ WriteFile(filename, "xlsx")
        \/ /\ ext \notin {DotParquet, DotCsv, DotXlsx}
           /\ log' = Append(log, "warning: Unsupported file extension")
           /\ idx' = idx + 1
           /\ pc' = AfterSave(args_output_filename, idx + 1)
           /\ UNCHANGED <<written, write_failed, error, exit_status>>

\* for filename in args.output_filename: save_to_file(df, filename)
SaveToFile ==
    /\ pc = "save"
    /\ trace' = Append(trace, "save")
    /\ save_df' = df
    /\ save_to_file(args_output_filename[idx])
    /\ UNCHANGED <<args_output_filename, data, fetched, df, db_df, influx_args, db_exc, db_result>>

\* mutant: only the url is checked
MissingArg_UrlOnly(env) == IF ~env[1] THEN 1 ELSE 0

\* get_influxdb_args: the first of the four parameters that is None (0: none)
MissingArg(env) ==
    IF \E i \in 1..Len(InfluxArgNames) : ~env[i]
    THEN CHOOSE i \in 1..Len(InfluxArgNames) :
            ~env[i] /\ \A j \in 1..(i - 1) : env[j]
    ELSE 0

\* mutant: a bare except
CaughtClasses_All ==
    {"ApiException", "ValueError", "TypeError", "RuntimeError", "ReadTimeoutError"}

\* the except clauses of write_dataframe_to_influxdb
CaughtClasses == {"ApiException", "ValueError", "TypeError", "RuntimeError"}

\* an exception raised inside the try block of write_dataframe_to_influxdb
Handle(e) ==
    /\ db_exc' = e
    /\ IF e.cls \in CaughtClasses
       THEN /\ log' = Append(log,
                        IF e.cls = "ApiException"
                        THEN IF e.status = 401
                             THEN "critical: Authentication error with InfluxDB"
                             ELSE "critical: InfluxDB API error"
                        ELSE "error: Error writing DataFrame to InfluxDB")
            /\ db_result' = "False"
            /\ Return
       ELSE /\ db_result' = "raised"
            /\ Crash(e)
            /\ UNCHANGED log

\* write_dataframe_to_influxdb, lines 64-65: the parameters are read from the
\* flags and the environment; a missing one raises RuntimeError inside the try
GetInfluxdbArgs ==
    /\ pc = "influx"
    /\ trace' = Append(trace, "influx")
    /\ db_df' = df
    /\ \E env \in [1..Len(InfluxArgNames) -> BOOLEAN] :
         /\ influx_args' = env
         /\ IF MissingArg(env) # 0
            THEN Handle(Exc("RuntimeError", 0))
            ELSE /\ pc' = "write"
                 /\ UNCHANGED <<db_exc, db_result, error, exit_status, log>>
    /\ UNCHANGED <<args_output_filename, data, fetched, df, idx, written, save_df, write_failed>>

\* write_dataframe_to_influxdb, lines 66-79: the client is built and
\* write_api.write sends the rows
Write ==
    /\ pc = "write"
    /\ trace' = Append(trace, "write")
    /\ \/ /\ db_result' = "True"
          /\ Return
          /\ UNCHANGED <<db_exc, log>>
       \/ \E e \in WriteErrors : Handle(e)
    /\ UNCHANGED <<args_output_filename, data, fetched, df, idx, written, save_df, db_df,
                   influx_args, write_failed>>

Next ==
    \/ Fetch
    \/ Normalize
    \/ Convert
    \/ FetchFailed
    \/ SaveToFile
    \/ GetInfluxdbArgs
    \/ Write

Spec == Init /\ [][Next]_vars

----------------------------------------------------------------------------
(* The transformer alone, on every normalised response within the bounds *)

\* per-region price lists of the transformer's inputs
PriceLists == SeqsUpTo(Points, MaxPoints)

\* main at line 110, with a successful response fetched and normalised
InitTransform ==
    /\ pc = "check"
    /\ args_output_filename = <<>>
    /\ \E ks \in KeySeqs(UpperRegionKeys, MaxRegions) :
         \E ps \in [1..Len(ks) -> PriceLists] :
            data = [success |-> TRUE,
                    data |-> [i \in 1..Len(ks) |-> [key |-> ks[i], prices |-> ps[i]]]]
    /\ fetched = data
    /\ df = <<>>
    /\ idx = 0
    /\ written = <<>>
    /\ save_df = <<>>
    /\ db_df = <<>>
    /\ influx_args = <<>>
    /\ db_exc = NoExc
    /\ db_result = "none"
    /\ write_failed = 0
    /\ error = NoExc
    /\ exit_status = "running"
    /\ log = <<>>
    /\ trace = <<"fetch">>

NextTransform == Convert

SpecTransform == InitTransform /\ [][NextTransform]_vars

----------------------------------------------------------------------------
(* Vocabulary of the properties *)

InTrace(ev) == \E i \in 1..Len(trace) : trace[i] = ev
CountTrace(ev) == Cardinality({i \in 1..Len(trace) : trace[i] = ev})

\* fetch_electricity_prices returned a response
GotResponse == InTrace("fetch") /\ ~(pc = "crashed" /\ trace = <<"fetch">>)

\* convert_to_dataframe has been called and has returned or raised
TransformRan == InTrace("transform")

LowerLetters == {"a", "c", "d", "e", "f", "i", "l", "p", "q", "r", "s", "t", "u", "v", "x"}
IsUppercase(s) == \A i \in 1..Len(s) : s[i] \notin LowerLetters

\* the extension of a path, compared case-insensitively, is one of the three formats
Supported(f) == lower(splitext_ext(f)) \in {DotParquet, DotCsv, DotXlsx}

TimestampsOf(prices) == {prices[k].timestamp : k \in 1..Len(prices)}
AllTimestamps(d) == UNION {TimestampsOf(d[i].prices) : i \in 1..Len(d)}
NoRepeats(d) == \A i \in 1..Len(d) : ~HasDuplicates(SeriesIndex(d[i].prices))

\* the positions of the rows of the table for a (timestamp, region) pair
RowsFor(rows, t, k) ==
    {n \in 1..Len(rows) : rows[n].time = to_datetime(t) /\ rows[n].area = k}

\* the price of the last point of a region's list at timestamp t
LastPrice(prices, t) ==
    prices[CHOOSE k \in 1..Len(prices) :
              /\ prices[k].timestamp = t
              /\ \A j \in (k + 1)..Len(prices) : prices[j].timestamp # t].price

\* one row per (timestamp, region) of the union crossed with the regions, with
\* the region's price at that timestamp, or a missing value
OneRowPerPair(d, rows) ==
    /\ Len(rows) = Len(d) * Cardinality(AllTimestamps(d))
    /\ \A i \in 1..Len(d) : \A t \in AllTimestamps(d) :
          /\ Cardinality(RowsFor(rows, t, d[i].key)) = 1
          /\ \A n \in RowsFor(rows, t, d[i].key) :
                rows[n].value = IF t \in TimestampsOf(d[i].prices)
                                THEN Val(LastPrice(d[i].prices, t))
                                ELSE NaN

----------------------------------------------------------------------------
(* C1: for every successful response whose regions repeat no timestamp,      *)
(* convert_to_dataframe raises nothing and returns exactly one row per       *)
(* (timestamp, region) pair of the union of timestamps crossed with the      *)
(* regions, N*M rows, with a missing value where the region has no point.    *)
(* Stated as claimed; a region with an empty list refutes it.                *)
C1_OneRowPerPair ==
    (TransformRan /\ NoRepeats(data.data))
        => (error = NoExc /\ OneRowPerPair(data.data, df))

\* the same, for responses in which every region has at least one point
C1_NonEmptyRegions ==
    (TransformRan /\ NoRepeats(data.data)
        /\ \A i \in 1..Len(data.data) : data.data[i].prices # <<>>)
        => (error = NoExc /\ OneRowPerPair(data.data, df))

(* C7: when a region's list repeats a timestamp, convert_to_dataframe does   *)
(* not fail and returns a single row for that (timestamp, region) pair,      *)
(* holding the price of the last occurrence.  Stated as claimed.             *)
C7_LastValueWins ==
    (TransformRan /\ ~NoRepeats(data.data))
        => /\ error = NoExc
           /\ \A i \in 1..Len(data.data) : \A t \in TimestampsOf(data.data[i].prices) :
                 /\ Cardinality(RowsFor(df, t, data.data[i].key)) = 1
                 /\ \A n \in RowsFor(df, t, data.data[i].key) :
                       df[n].value = Val(LastPrice(data.data[i].prices, t))

\* what the code does with a repeated timestamp: it raises ValueError, or it
\* keeps one row per occurrence
C7_RepeatsKeptOrRaise ==
    (TransformRan /\ ~NoRepeats(data.data)
        /\ \A i \in 1..Len(data.data) : data.data[i].prices # <<>>)
        => \/ error = Exc("ValueError", 0)
           \/ /\ error = NoExc
              /\ \E i \in 1..Len(data.data) : \E t \in TimestampsOf(data.data[i].prices) :
                    Cardinality(RowsFor(df, t, data.data[i].key)) > 1

----------------------------------------------------------------------------
(* Properties of the run *)

AnyMissing == influx_args # <<>> /\ \E i \in 1..Len(InfluxArgNames) : ~influx_args[i]

(* C2, as claimed: when one of the four connection parameters is missing,    *)
(* the run fails before the HTTP price fetch and exits non-zero.             *)
C2_FatalBeforeFetch ==
    AnyMissing => (~InTrace("fetch") /\ pc = "crashed" /\ exit_status = 1)

(* C2, amended: a missing connection parameter is found when                 *)
(* write_dataframe_to_influxdb reads the parameters, after the fetch; the    *)
(* RuntimeError is raised before any database call, is caught, the writer    *)
(* returns False and the run ends normally with exit status 0.               *)
C2_MissingParamReturnsFalse ==
    AnyMissing =>
        /\ trace[1] = "fetch"
        /\ trace[Len(trace)] = "influx"
        /\ ~InTrace("write")
        /\ db_exc = Exc("RuntimeError", 0)
        /\ db_result = "False"
        /\ log[Len(log)] = "error: Error writing DataFrame to InfluxDB"
        /\ error = NoExc
        /\ pc = "done"
        /\ exit_status = 0

C2_Witness ==
    /\ AnyMissing
    /\ influx_args[1]
    /\ ~influx_args[2]
    /\ pc = "done"
    /\ Len(written) > 0

(* C3, as claimed: the writer returns True only when the write completed,    *)
(* returns False for every ApiException, ValueError and TypeError, and lets  *)
(* a failure of any other class propagate.                                   *)
C3_ThreeClassesCaught ==
    /\ db_result = "True" => (InTrace("write") /\ db_exc = NoExc /\ ~AnyMissing)
    /\ db_exc.cls \in {"ApiException", "ValueError", "TypeError"}
          => (db_result = "False" /\ pc = "done" /\ exit_status = 0 /\ error = NoExc)
    /\ db_exc.cls \notin {"none", "ApiException", "ValueError", "TypeError"}
          => (db_result = "raised" /\ pc = "crashed" /\ error = db_exc)

(* C3, amended: the writer returns True only when the write completed,       *)
(* returns False without raising for every ApiException, ValueError,         *)
(* TypeError and RuntimeError (the missing-parameter error included), and    *)
(* lets a failure of any other class propagate out of main.                  *)
C3_FourClassesCaught ==
    /\ db_result = "True" => (InTrace("write") /\ db_exc = NoExc /\ ~AnyMissing)
    /\ db_exc.cls \in {"ApiException", "ValueError", "TypeError", "RuntimeError"}
          => (db_result = "False" /\ pc = "done" /\ exit_status = 0 /\ error = NoExc)
    /\ db_exc.cls \notin {"none", "ApiException", "ValueError", "TypeError", "RuntimeError"}
          => (db_result = "raised" /\ pc = "crashed" /\ error = db_exc /\ exit_status = 1)
    /\ db_result = "False" => db_exc # NoExc

C3_Witness ==
    /\ db_exc = Exc("ApiException", 401)
    /\ InTrace("write")
    /\ db_result = "False"
    /\ log[Len(log)] = "critical: Authentication error with InfluxDB"
    /\ pc = "done"

(* C4: as long as no file write has failed, the files written are exactly    *)
(* the paths processed so far whose extension, compared case-insensitively,  *)
(* is .parquet, .csv or .xlsx; an unsupported path gives one warning and the *)
(* loop goes on, so that every path has been processed when the database     *)
(* stage begins.                                                             *)
C4_SupportedPathsWritten ==
    (TransformRan /\ error = NoExc /\ write_failed = 0)
        => /\ written = SelectSeq(SubSeq(args_output_filename, 1, idx - 1), Supported)
           /\ Cardinality({i \in 1..Len(log) : log[i] = "warning: Unsupported file extension"})
                = Cardinality({i \in 1..(idx - 1) : ~Supported(args_output_filename[i])})
           /\ CountTrace("save") = idx - 1
           /\ (pc \in {"influx", "write", "done"} => idx = Len(args_output_filename) + 1)

C4_Witness ==
    /\ args_output_filename = << <<"a",".","t","x","t">>, <<"a",".","c","s","v">> >>
    /\ written = << <<"a",".","c","s","v">> >>
    /\ pc = "done"

(* C5: when the fetched response has success = false, the transformer is     *)
(* never called, no file is written and no database write is attempted,      *)
(* whatever the output paths; the run logs the failure and ends.             *)
C5_NoOutputOnFailure ==
    (GotResponse /\ ~fetched.success)
        => /\ ~InTrace("transform") /\ ~InTrace("save")
           /\ ~InTrace("influx") /\ ~InTrace("write")
           /\ df = <<>> /\ written = <<>>
           /\ influx_args = <<>> /\ db_result = "none"
           /\ pc \in {"normalize", "check", "done"}
           /\ error = NoExc
           /\ (pc = "done" => (log = <<"error: Failed to fetch data">> /\ exit_status = 0))

C5_Witness ==
    /\ GotResponse
    /\ ~fetched.success
    /\ Len(fetched.data) > 0
    /\ Len(args_output_filename) = 2
    /\ Supported(args_output_filename[1])
    /\ pc = "done"

StageRank(ev) ==
    CASE ev = "fetch" -> 1 [] ev = "transform" -> 2 [] ev = "save" -> 3
      [] ev = "influx" -> 4 [] ev = "write" -> 5

C6_Order ==
    /\ \A i, j \in 1..Len(trace) : i < j =>
          /\ StageRank(trace[i]) <= StageRank(trace[j])
          /\ StageRank(trace[i]) = StageRank(trace[j]) => trace[i] = "save"
    /\ (trace # <<>> => trace[1] = "fetch")
    /\ (InTrace("save") \/ InTrace("influx")) => InTrace("transform")
    /\ InTrace("write") => InTrace("influx")
    /\ CountTrace("save") <= Len(args_output_filename)
    /\ InTrace("influx") => CountTrace("save") = Len(args_output_filename)
    /\ Len(written) <= CountTrace("save")
    /\ error \in FetchErrors => (trace = <<"fetch">> /\ pc = "crashed" /\ written = <<>>)
    /\ db_result \in {"False", "raised"} => pc \in {"done", "crashed"}

(* C6: the stages run in the order fetch, transform, files, database, each   *)
(* at most once (one save per output path); no file is written before the    *)
(* transform, the database stage begins only when every path has been        *)
(* processed, a fetch failure ends the run at once, and from the database    *)
(* stage on no file is written.                                              *)
C6_StagesInOrderOnce ==
    /\ []C6_Order
    /\ [][(InTrace("influx") \/ pc \in {"done", "crashed"})
             => (written' = written /\ CountTrace("save")' = CountTrace("save"))]_vars

C6_Witness ==
    /\ trace = <<"fetch", "transform", "save", "save", "influx", "write">>
    /\ Len(written) = 2
    /\ db_result = "False"
    /\ pc = "done"

AreasUppercase(rows) == \A n \in 1..Len(rows) : IsUppercase(rows[n].area)

(* C8: every row of the table, and every row handed to save_to_file and to   *)
(* write_dataframe_to_influxdb, has an uppercase area code, whatever the     *)
(* case of the keys of the fetched response.                                 *)
C8_AreasUppercase ==
    AreasUppercase(df) /\ AreasUppercase(save_df) /\ AreasUppercase(db_df)

C8_Witness ==
    /\ HasKey(fetched.data, <<"e","e">>)
    /\ HasKey(fetched.data, <<"E","E">>)
    /\ Len(save_df) > 0
    /\ Len(db_df) > 0
    /\ Len(written) > 0
    /\ db_result = "True"

(* C9: a successful response with an empty data mapping is transformed into  *)
(* an empty table without an error, and the run goes on to the export        *)
(* stages with that table.                                                   *)
C9_EmptyMapping ==
    (GotResponse /\ data.success /\ data.data = <<>> /\ pc \notin {"normalize", "check"})
        => /\ InTrace("transform")
           /\ df = <<>>
           /\ error.cls \notin {"KeyError", "ValueError"}
           /\ pc \in {"save", "influx", "write", "done", "crashed"}
           /\ pc = "crashed" => (write_failed # 0 \/ db_result = "raised")
           /\ InTrace("influx") => (db_df = <<>> /\ CountTrace("save") = Len(args_output_filename))

C9_Witness ==
    /\ fetched = [success |-> TRUE, data |-> <<>>]
    /\ df = <<>>
    /\ Len(written) = 2
    /\ db_result = "True"
    /\ pc = "done"

(* C10: when the write of the file at position i raises, the error leaves    *)
(* main: the files written for the supported paths before i stay written,    *)
(* no path after i is processed and the database write is never attempted.   *)
C10_WriteFailurePropagates ==
    write_failed # 0
        => /\ pc = "crashed"
           /\ error = Exc("OSError", 0)
           /\ exit_status = 1
           /\ idx = write_failed
           /\ CountTrace("save") = write_failed
           /\ written = SelectSeq(SubSeq(args_output_filename, 1, write_failed - 1), Supported)
           /\ ~InTrace("influx") /\ ~InTrace("write")
           /\ influx_args = <<>> /\ db_result = "none" /\ db_df = <<>>

C10_Witness ==
    /\ write_failed = 2
    /\ Len(args_output_filename) = 2
    /\ written = <<args_output_filename[1]>>
    /\ pc = "crashed"

====
